---- MODULE Spec2Model ----
(***************************************************************************)
(* Model of the transcript-cleaning and subtitle-assembly Lambdas of the   *)
(* Cognizant video translation pipeline.                                   *)
(*                                                                         *)
(*   src/Lambdafiles/TranslationSubtitlesLambda.py                         *)
(*       filter_low_confidence_items_and_segments, lambda_handler          *)
(*   src/StartTranscriptionLambda.py                                       *)
(*       filter_low_confidence_items_and_segments (second copy)            *)
(*                                                                         *)
(* Conventions:                                                            *)
(*   - a Python str is a sequence of one-character strings;                *)
(*   - a Python dict is a record, an optional key is a field that may be   *)
(*     absent from the record's DOMAIN;                                    *)
(*   - a Python list is a sequence (index 1 is Python's index 0);          *)
(*   - confidences and the threshold are in hundredths (0.25 is 25);       *)
(*   - times are in hundredths of a second (2.0 s is 200).                 *)
(***************************************************************************)
EXTENDS Integers, Sequences, FiniteSets, TLC

VARIABLES
    file,               \* the transcription artifact read at lines 70-73 (never written)
    threshold,          \* the threshold argument of the filter
    transcript_data,    \* the in-memory transcript; the filter mutates it in place
    prev,               \* SpecFilter: transcript_data as it was before the last filter call
    calls,              \* SpecFilter: which copies of the filter have been applied, in order
    pc,                 \* position of lambda_handler
    segments_to_translate,
    idx,                \* number of loop iterations of line 91 completed
    max_translated_characters,  \* the local of line 94, per iteration
    responses,          \* what the translator answered, per iteration
    subtitles,          \* the list built at lines 193-198
    uploaded,           \* the subtitle artifact in the output bucket
    error               \* the exception that ended the run, if any

vars == <<file, threshold, transcript_data, prev, calls, pc, segments_to_translate,
          idx, max_translated_characters, responses, subtitles, uploaded, error>>

----------------------------------------------------------------------------
(* Strings                                                                 *)

\* U+3000 IDEOGRAPHIC SPACE, the character of lines 179 and 189.
IDEOGRAPHIC_SPACE == "U+3000"

\* The code points str.strip() removes that occur in the model: the ASCII
\* space and U+3000 (str.isspace() is true of both).
Whitespace == {" ", IDEOGRAPHIC_SPACE}

UpperCase == <<"A","B","C","D","E","F","G","H","I","J","K","L","M",
               "N","O","P","Q","R","S","T","U","V","W","X","Y","Z">>
LowerCase == <<"a","b","c","d","e","f","g","h","i","j","k","l","m",
               "n","o","p","q","r","s","t","u","v","w","x","y","z">>

\* str.lower() on one character.
LowerChar(c) ==
    IF \E i \in DOMAIN UpperCase : UpperCase[i] = c
    THEN LowerCase[CHOOSE i \in DOMAIN UpperCase : UpperCase[i] = c]
    ELSE c

\* str.lower()
Lower(s) == [i \in DOMAIN s |-> LowerChar(s[i])]

\* str.strip(): drop the leading and the trailing whitespace.
RECURSIVE LStrip(_)
LStrip(s) == IF s # <<>> /\ Head(s) \in Whitespace THEN LStrip(Tail(s)) ELSE s

RECURSIVE RStrip(_)
RStrip(s) ==
    IF s # <<>> /\ s[Len(s)] \in Whitespace THEN RStrip(SubSeq(s, 1, Len(s) - 1)) ELSE s

Strip(s) == RStrip(LStrip(s))

\* " ".join(words)
RECURSIVE Join(_)
Join(words) ==
    IF words = <<>> THEN <<>>
    ELSE IF Len(words) = 1 THEN words[1]
    ELSE words[1] \o <<" ">> \o Join(Tail(words))

----------------------------------------------------------------------------
(* filter_low_confidence_items_and_segments                                *)

\* float(item["alternatives"][0].get("confidence", "1.0"))
Confidence(item) ==
    IF "confidence" \in DOMAIN item.alternatives[1]
    THEN item.alternatives[1].confidence
    ELSE 100

\* Mutant of LowConfidenceIds: `confidence <= threshold` for `confidence < threshold`.
LowConfidenceIds_AtOrBelow(items, th) ==
    { items[i].id : i \in { j \in DOMAIN items :
                              /\ items[j].type = "pronunciation"
                              /\ Confidence(items[j]) <= th } }

\* Step 1 of both copies: the ids of the pronunciation items below the threshold.
LowConfidenceIds(items, th) ==
    { items[i].id : i \in { j \in DOMAIN items :
                              /\ items[j].type = "pronunciation"
                              /\ Confidence(items[j]) < th } }

\* next((i for i in items if i["id"] == item_id), None): whether it is not None
\* (an item is a non-empty dict, so `if matched_item:` tests exactly that).
HasMatch(items, item_id) == \E i \in DOMAIN items : items[i].id = item_id

\* ... and the item it yields: the first one with that id.
MatchedItem(items, item_id) ==
    items[CHOOSE i \in DOMAIN items :
            /\ items[i].id = item_id
            /\ \A j \in DOMAIN items : items[j].id = item_id => i <= j]

Contents(items, ids) ==
    [k \in DOMAIN ids |-> MatchedItem(items, ids[k]).alternatives[1].content]

\* TranslationSubtitlesLambda.py, lines 31-39: the ids a segment keeps.
NewItemsTSL(items, low, seg) ==
    LET Kept(item_id) == item_id \notin low /\ HasMatch(items, item_id)
    IN  SelectSeq(seg.items, Kept)

\* Mutant of ReconstructTSL: the rebuilt words are added to the segment's transcript
\* (`seg["transcript"] += ...`) instead of replacing it.
ReconstructTSL_Accumulating(items, low, seg) ==
    LET new_items == NewItemsTSL(items, low, seg)
        new_transcript == Join(Contents(items, new_items))
    IN  [seg EXCEPT !.items = new_items,
                    !.transcript = seg.transcript \o <<" ">> \o new_transcript]

\* TranslationSubtitlesLambda.py, lines 30-47: one segment, rewritten in place.
ReconstructTSL(items, low, seg) ==
    LET new_items == NewItemsTSL(items, low, seg)
        new_transcript == Join(Contents(items, new_items))
    IN  [seg EXCEPT !.items = new_items, !.transcript = new_transcript]

\* Mutant of KeepSegment: `if new_transcript:`, the strip() forgotten.
KeepSegment_Unstripped(seg) == seg.transcript # <<>>

\* TranslationSubtitlesLambda.py, line 44: `if new_transcript.strip():`
KeepSegment(seg) == Strip(seg.transcript) # <<>>

\* TranslationSubtitlesLambda.py, lines 16-51.
FilterTSL(data, th) ==
    LET items == data.results.items
        segments == data.results.audio_segments
        low == LowConfidenceIds(items, th)
        rebuilt == [k \in DOMAIN segments |-> ReconstructTSL(items, low, segments[k])]
        cleaned_segments == SelectSeq(rebuilt, KeepSegment)
    IN  [data EXCEPT !.results.audio_segments = cleaned_segments]

\* StartTranscriptionLambda.py, lines 27-36: an id is appended before it is looked
\* up, and a segment is never dropped.
ReconstructSTL(items, low, seg) ==
    LET NotLow(item_id) == item_id \notin low
        Found(item_id) == HasMatch(items, item_id)
        new_items == SelectSeq(seg.items, NotLow)
        new_transcript == Join(Contents(items, SelectSeq(new_items, Found)))
    IN  [seg EXCEPT !.items = new_items, !.transcript = new_transcript]

\* StartTranscriptionLambda.py, lines 15-38.
FilterSTL(data, th) ==
    LET items == data.results.items
        segments == data.results.audio_segments
        low == LowConfidenceIds(items, th)
    IN  [data EXCEPT !.results.audio_segments =
            [k \in DOMAIN segments |-> ReconstructSTL(items, low, segments[k])]]

----------------------------------------------------------------------------
(* lambda_handler of TranslationSubtitlesLambda.py                         *)

\* The threshold lambda_handler passes at line 75 (0.25).
THRESHOLD == 25

\* The speech-rate constant of line 94 (5.68), in hundredths.
RATE == 568

\* int(x) for x = n / d with d > 0: Python's int() truncates towards zero.
Trunc(n, d) == IF n >= 0 THEN n \div d ELSE -((-n) \div d)

\* float(item.get('start_time', 0)) and float(item.get('end_time', 0)), lines 92-93.
StartTime(item) == IF "start_time" \in DOMAIN item THEN item.start_time ELSE 0
EndTime(item) == IF "end_time" \in DOMAIN item THEN item.end_time ELSE 0

\* Line 94: int((end_time - start_time) * 5.68), times in hundredths of a second.
MaxTranslatedCharacters(item) == Trunc((EndTime(item) - StartTime(item)) * RATE, 10000)

\* Lines 99-105: the English text of a loop item, or no text at all (`continue`).
HasText(item) ==
    \/ "transcript" \in DOMAIN item
    \/ ("alternatives" \in DOMAIN item /\ item.alternatives # <<>>)

EnglishText(item) ==
    IF "transcript" \in DOMAIN item THEN item.transcript
    ELSE item.alternatives[1].content

\* The f-string prefix of lines 186 and 191.
ERROR_TAG == <<"[","T","R","A","N","S","L","A","T","I","O","N","_",
               "E","R","R","O","R","]"," ">>

\* The list of line 188.
FILLERS == {
    <<"u","m">>, <<"u","h">>, <<"s","o">>, <<"w","e","l","l">>,
    <<"y","o","u"," ","k","n","o","w">>, <<"i"," ","m","e","a","n">>,
    <<"u","h",",">>, <<"u","m",",">>, <<"s","o",",">>, <<"w","e","l","l",",">>,
    <<"y","o","u"," ","k","n","o","w",",">>, <<"i"," ","m","e","a","n",",">> }

\* Mutant of IsFiller: the text starts with a filler, for the text is a filler.
IsFiller_StartsWith(english_text) ==
    \E f \in FILLERS :
        /\ Len(f) <= Len(Lower(Strip(english_text)))
        /\ SubSeq(Lower(Strip(english_text)), 1, Len(f)) = f

\* Line 188: english_text.strip().lower() in [...]
IsFiller(english_text) == Lower(Strip(english_text)) \in FILLERS

\* Lines 181-191: the except branch.
Fallback(english_text) ==
    IF IsFiller(english_text) THEN <<IDEOGRAPHIC_SPACE>>
    ELSE ERROR_TAG \o english_text

\* Mutant of Accepted: lines 178-179 left out, an empty answer stays empty.
Accepted_NoPlaceholder(text) == Strip(text)

\* Lines 164-179: a parsed response with a text block.
Accepted(text) ==
    LET translated_text == Strip(text)
    IN  IF translated_text = <<>> THEN <<IDEOGRAPHIC_SPACE>> ELSE translated_text

\* Lines 139-191: what one translator answer makes of translated_text.
\*   "ok"        content[0].text is resp.text
\*   "error"     the body carries "error"           (RuntimeError, line 169)
\*   "malformed" no content block or no text in it  (ValueError, line 174)
\*   "raised"    invoke_model or the decoding raised
TranslatedText(english_text, resp) ==
    IF resp.kind = "ok" THEN Accepted(resp.text) ELSE Fallback(english_text)

\* Lines 193-198; `translated_text or ""` is translated_text itself for a str.
Subtitle(item, english_text, translated_text) ==
    [start_time |-> StartTime(item),
     end_time   |-> EndTime(item),
     text       |-> english_text,
     ja_text    |-> translated_text]

----------------------------------------------------------------------------
(* The transcription artifacts the runs start from                         *)

MaxSegs == 2        \* audio segments in a transcript
MaxSegItems == 2    \* item references in one segment
MaxRefs == 3        \* item references in all segments together (SpecFilter)
MaxCalls == 2       \* successive calls of the filter on the same data (SpecFilter)

Hello == <<"H","e","l","l","o">>
Ignored == <<"i","g","n","o","r","e","d">>
Goodbye == <<"G","o","o","d","b","y","e">>
Um == <<"U","m">>
Comma == <<",">>
Empty == <<>>

Pron(id, content, confidence) ==
    [id |-> id, type |-> "pronunciation",
     alternatives |-> <<[content |-> content, confidence |-> confidence]>>]

PronNoConfidence(id, content) ==
    [id |-> id, type |-> "pronunciation", alternatives |-> <<[content |-> content]>>]

Punct(id, content) ==
    [id |-> id, type |-> "punctuation",
     alternatives |-> <<[content |-> content, confidence |-> 0]>>]

\* The item lists of the transcripts: the scenario of the specification's section 8,
\* a filler word with its comma and a word at exactly 0.25, and items without text.
Recordings == {
    << Pron(1, Hello, 90), Pron(2, Ignored, 10), Pron(3, Goodbye, 90) >>,
    << PronNoConfidence(1, Um), Punct(2, Comma), Pron(3, Hello, 25) >>,
    << Pron(1, Ignored, 10), Punct(2, Empty), Punct(3, Empty) >> }

\* The transcript the recognizer writes for a segment: the words separated by
\* spaces, a punctuation mark attached to the word before it.
RECURSIVE Utterance(_, _)
Utterance(items, ids) ==
    IF ids = <<>> THEN <<>>
    ELSE LET n == Len(ids)
             before == Utterance(items, SubSeq(ids, 1, n - 1))
         IN  IF ~HasMatch(items, ids[n]) THEN before
             ELSE LET it == MatchedItem(items, ids[n])
                      word == it.alternatives[1].content
                  IN  IF before = <<>> \/ it.type = "punctuation" THEN before \o word
                      ELSE before \o <<" ">> \o word

RECURSIVE Sum(_)
Sum(lens) == IF lens = <<>> THEN 0 ELSE Head(lens) + Sum(Tail(lens))

\* The lengths of the segments of a transcript.
SegLengths(least) == UNION { [1..k -> least..MaxSegItems] : k \in 0..MaxSegs }

\* refs cut into consecutive pieces of the lengths lens.
Cut(refs, lens) ==
    [k \in DOMAIN lens |->
        SubSeq(refs, Sum(SubSeq(lens, 1, k - 1)) + 1, Sum(SubSeq(lens, 1, k)))]

\* How a segment may carry its times; "scenario" is 2 s per segment, back to back.
TimeKinds == {"scenario", "ten", "zero", "no_end", "no_start"}

TimeFields(kind, k) ==
    CASE kind = "scenario" -> [start_time |-> 200 * (k - 1), end_time |-> 200 * k]
      [] kind = "ten"      -> [start_time |-> 0, end_time |-> 1000]
      [] kind = "zero"     -> [start_time |-> 200, end_time |-> 200]
      [] kind = "no_end"   -> [start_time |-> 200]
      [] kind = "no_start" -> [end_time |-> 400]

AudioSegment(k, items, ids, kind) ==
    [id |-> k, transcript |-> Utterance(items, ids), items |-> ids]
        @@ TimeFields(kind, k)

AudioSegments(items, lists, kinds) ==
    [k \in DOMAIN lists |-> AudioSegment(k, items, lists[k], kinds[k])]

----------------------------------------------------------------------------
(* SpecFilter: the two copies of the filter, each applied to a transcript  *)
(* and then again to its own result                                        *)

Thresholds == {25, 50}

InitFilter ==
    /\ \E items \in Recordings, lens \in SegLengths(1) :
         /\ Sum(lens) <= MaxRefs
         /\ \E refs \in [1..Sum(lens) -> 1..(Len(items) + 1)] :
              file = [results |->
                        [items |-> items,
                         audio_segments |->
                            AudioSegments(items, Cut(refs, lens),
                                          [k \in DOMAIN lens |-> "scenario"])]]
    /\ threshold \in Thresholds
    /\ transcript_data = file
    /\ prev = file
    /\ calls = <<>>
    /\ pc = "call"
    /\ segments_to_translate = <<>>
    /\ idx = 0
    /\ max_translated_characters = <<>>
    /\ responses = <<>>
    /\ subtitles = <<>>
    /\ uploaded = <<>>
    /\ error = "none"

CallFilter(copy) ==
    /\ pc = "call"
    /\ Len(calls) < MaxCalls
    /\ \A k \in DOMAIN calls : calls[k] = copy
    /\ prev' = transcript_data
    /\ transcript_data' = IF copy = "TSL" THEN FilterTSL(transcript_data, threshold)
                          ELSE FilterSTL(transcript_data, threshold)
    /\ calls' = Append(calls, copy)
    /\ UNCHANGED <<file, threshold, pc, segments_to_translate, idx,
                   max_translated_characters, responses, subtitles, uploaded, error>>

\* filter_low_confidence_items_and_segments of TranslationSubtitlesLambda.py
CallFilterTSL == CallFilter("TSL")

\* filter_low_confidence_items_and_segments of StartTranscriptionLambda.py
CallFilterSTL == CallFilter("STL")

NextFilter == CallFilterTSL \/ CallFilterSTL

SpecFilter == InitFilter /\ [][NextFilter]_vars

----------------------------------------------------------------------------
(* Spec: one invocation of lambda_handler, from the transcript loaded at   *)
(* line 73 to the upload of line 207                                       *)

\* What the translator may put in content[0].text: nothing, whitespace only, and
\* five kana with a space on either side.
Konnichiwa == <<"ko","n","ni","chi","wa">>

ResponseTexts == { Empty, <<" ", IDEOGRAPHIC_SPACE>>, <<" ">> \o Konnichiwa \o <<" ">> }

Responses ==
    { [kind |-> "ok", text |-> t] : t \in ResponseTexts }
        \cup { [kind |-> "error"], [kind |-> "malformed"], [kind |-> "raised"] }

\* The ids 1..n in order: the recognizer's segments list consecutive items.
Consecutive(n) == [k \in 1..n |-> k]

\* The artifacts: transcripts with items and segments, and artifacts that lack
\* results.audio_segments, results.items or both.
Files ==
    { [results |-> [items |-> items,
                    audio_segments |->
                        AudioSegments(items, Cut(Consecutive(Sum(x[1])), x[1]), x[2])]] :
        items \in Recordings,
        x \in { y \in UNION { {lens} \X [DOMAIN lens -> TimeKinds] : lens \in SegLengths(1) } :
                  Sum(y[1]) <= MaxRefs } }
    \cup { [results |-> [items |-> items]] : items \in Recordings }
    \cup { [results |-> [audio_segments |-> <<>>]], [results |-> <<>>] }

Init ==
    /\ file \in Files
    /\ threshold = THRESHOLD
    /\ transcript_data = file
    /\ prev = file
    /\ calls = <<>>
    /\ pc = "filter"
    /\ segments_to_translate = <<>>
    /\ idx = 0
    /\ max_translated_characters = <<>>
    /\ responses = <<>>
    /\ subtitles = <<>>
    /\ uploaded = <<>>
    /\ error = "none"

\* Line 75. The filter reads data["results"]["items"] and
\* data["results"]["audio_segments"] first (lines 17-18): a missing key is a KeyError.
Filter ==
    /\ pc = "filter"
    /\ IF {"items", "audio_segments"} \subseteq DOMAIN transcript_data.results
       THEN /\ transcript_data' = FilterTSL(transcript_data, threshold)
            /\ prev' = transcript_data
            /\ calls' = Append(calls, "TSL")
            /\ pc' = "select"
            /\ error' = error
       ELSE /\ pc' = "failed"
            /\ error' = "KeyError"
            /\ UNCHANGED <<transcript_data, prev, calls>>
    /\ UNCHANGED <<file, threshold, segments_to_translate, idx,
                   max_translated_characters, responses, subtitles, uploaded>>

\* Lines 80-88.
SelectSegments ==
    /\ pc = "select"
    /\ IF "audio_segments" \in DOMAIN transcript_data.results
       THEN /\ segments_to_translate' = transcript_data.results.audio_segments
            /\ pc' = "loop"
            /\ error' = error
       ELSE IF "items" \in DOMAIN transcript_data.results
       THEN \* line 83 reads results['audio'], a key the transcript does not have
            /\ IF "audio" \in DOMAIN transcript_data.results
               THEN /\ segments_to_translate' = transcript_data.results.audio
                    /\ pc' = "loop"
                    /\ error' = error
               ELSE /\ pc' = "failed"
                    /\ error' = "KeyError"
                    /\ UNCHANGED segments_to_translate
       ELSE /\ pc' = "failed"
            /\ error' = "ValueError"
            /\ UNCHANGED segments_to_translate
    /\ UNCHANGED <<file, threshold, transcript_data, prev, calls, idx,
                   max_translated_characters, responses, subtitles, uploaded>>

\* Lines 91-198: one iteration of the loop, the translator answering resp.
Translate ==
    /\ pc = "loop"
    /\ idx < Len(segments_to_translate)
    /\ LET item == segments_to_translate[idx + 1]
       IN  /\ max_translated_characters' =
                 Append(max_translated_characters, MaxTranslatedCharacters(item))
           /\ IF HasText(item)
              THEN \E resp \in Responses :
                     /\ responses' = Append(responses, resp)
                     /\ subtitles' =
                          Append(subtitles,
                                 Subtitle(item, EnglishText(item),
                                          TranslatedText(EnglishText(item), resp)))
              ELSE \* line 105: continue
                   /\ responses' = Append(responses, [kind |-> "skipped"])
                   /\ subtitles' = subtitles
    /\ idx' = idx + 1
    /\ UNCHANGED <<file, threshold, transcript_data, prev, calls, pc,
                   segments_to_translate, uploaded, error>>

\* Mutant of Upload: lines 200-207 indented into the loop, so the list built so far
\* is dumped and uploaded (under the same key) after every iteration.
Upload_InsideLoop ==
    /\ pc = "loop"
    /\ idx <= Len(segments_to_translate)
    /\ uploaded' = <<subtitles>>
    /\ pc' = IF idx = Len(segments_to_translate) THEN "done" ELSE "loop"
    /\ UNCHANGED <<file, threshold, transcript_data, prev, calls, segments_to_translate,
                   idx, max_translated_characters, responses, subtitles, error>>

\* Lines 200-215: the list is dumped and uploaded after the loop.
Upload ==
    /\ pc = "loop"
    /\ idx = Len(segments_to_translate)
    /\ uploaded' = Append(uploaded, subtitles)
    /\ pc' = "done"
    /\ UNCHANGED <<file, threshold, transcript_data, prev, calls, segments_to_translate,
                   idx, max_translated_characters, responses, subtitles, error>>

Next == Filter \/ SelectSegments \/ Translate \/ Upload

Spec == Init /\ [][Next]_vars

----------------------------------------------------------------------------
(* Properties of the filter (SpecFilter)                                   *)

Range(seq) == { seq[k] : k \in DOMAIN seq }

RECURSIVE IsSubsequence(_, _)
IsSubsequence(a, b) ==
    IF a = <<>> THEN TRUE
    ELSE IF b = <<>> THEN FALSE
    ELSE IF Head(a) = Head(b) THEN IsSubsequence(Tail(a), Tail(b))
    ELSE IsSubsequence(a, Tail(b))

\* The segments before and after the last call of the filter, and the items
\* (the filter leaves results.items alone).
ItemsRead == file.results.items
SegmentsIn == prev.results.audio_segments
SegmentsOut == transcript_data.results.audio_segments
Filtered == calls # <<>>

\* The segment a rewritten segment was before the call: the filter rewrites the
\* segment objects in place, so a segment keeps its id.
Before(seg) == CHOOSE s \in Range(SegmentsIn) : s.id = seg.id

\* item_id is the id of a pronunciation item whose confidence is below the threshold.
IsLowPronunciation(item_id) ==
    \E i \in DOMAIN ItemsRead :
        /\ ItemsRead[i].id = item_id
        /\ ItemsRead[i].type = "pronunciation"
        /\ "confidence" \in DOMAIN ItemsRead[i].alternatives[1]
        /\ ItemsRead[i].alternatives[1].confidence < threshold

\* item_id is the id of an item the filter has no reason to drop: a punctuation
\* item, an item at or above the threshold, or an item with no confidence field.
IsGoodItem(item_id) ==
    \E i \in DOMAIN ItemsRead :
        /\ ItemsRead[i].id = item_id
        /\ \/ ItemsRead[i].type = "punctuation"
           \/ "confidence" \notin DOMAIN ItemsRead[i].alternatives[1]
           \/ ItemsRead[i].alternatives[1].confidence >= threshold

HasNoConfidence(item_id) ==
    \E i \in DOMAIN ItemsRead :
        /\ ItemsRead[i].id = item_id
        /\ "confidence" \notin DOMAIN ItemsRead[i].alternatives[1]

IsPunctuation(item_id) ==
    \E i \in DOMAIN ItemsRead :
        ItemsRead[i].id = item_id /\ ItemsRead[i].type = "punctuation"

\* C1: after either copy of the filter, no segment lists the id of a pronunciation
\* item whose confidence is below the threshold, and every id of the segment that
\* resolves to a punctuation item, to an item at or above the threshold or to an
\* item with no confidence field is still listed.
C1_LowConfidenceRemovedOthersKept ==
    Filtered =>
        \A s \in Range(SegmentsOut) :
            /\ \A item_id \in Range(s.items) : ~IsLowPronunciation(item_id)
            /\ \A item_id \in Range(Before(s).items) :
                    IsGoodItem(item_id) => item_id \in Range(s.items)

\* C1 witness: one call has rewritten a segment that listed a low-confidence word,
\* a punctuation mark and a word without confidence field.
C1_Witness ==
    /\ Len(calls) = 1
    /\ \E s \in Range(SegmentsOut) :
          /\ \E item_id \in Range(Before(s).items) : IsLowPronunciation(item_id)
          /\ \E item_id \in Range(s.items) : HasNoConfidence(item_id)
    /\ \E s \in Range(SegmentsOut) :
          \E item_id \in Range(s.items) : IsPunctuation(item_id)

\* The words of the ids in a segment's item list, each resolved by id.
AllResolve(ids) == \A item_id \in Range(ids) : HasMatch(ItemsRead, item_id)

\* C2: every segment's transcript is the contents of exactly the ids in its item
\* list, joined by single spaces, in the order the ids had in the input segment.
C2_TranscriptIsJoinOfItemList ==
    Filtered =>
        \A s \in Range(SegmentsOut) :
            /\ AllResolve(s.items)
            /\ s.transcript = Join(Contents(ItemsRead, s.items))
            /\ IsSubsequence(s.items, Before(s).items)

\* C2, for the copy in TranslationSubtitlesLambda.py alone.
C2_TranscriptIsJoinOfItemListTSL ==
    (Filtered /\ calls[1] = "TSL") =>
        \A s \in Range(SegmentsOut) :
            /\ AllResolve(s.items)
            /\ s.transcript = Join(Contents(ItemsRead, s.items))
            /\ IsSubsequence(s.items, Before(s).items)

Ids(segments) == [k \in DOMAIN segments |-> segments[k].id]

\* The transcript the claims call reconstructed: the words of the segment's ids
\* that are not low-confidence and resolve to an item.
ReconstructedWords(seg) ==
    LET Stays(item_id) == ~IsLowPronunciation(item_id) /\ HasMatch(ItemsRead, item_id)
    IN  Join(Contents(ItemsRead, SelectSeq(seg.items, Stays)))

IsBlank(text) == \A k \in DOMAIN text : text[k] \in Whitespace

\* C3: a segment whose reconstructed transcript is blank is absent from the output,
\* every other segment is present, the output is a subsequence of the input, and
\* it is no longer than the input.
C3_BlankSegmentsDropped ==
    Filtered =>
        /\ \A s \in Range(SegmentsOut) : ~IsBlank(s.transcript)
        /\ \A s \in Range(SegmentsIn) :
              ~IsBlank(ReconstructedWords(s)) => s.id \in Range(Ids(SegmentsOut))
        /\ IsSubsequence(Ids(SegmentsOut), Ids(SegmentsIn))
        /\ Len(SegmentsOut) <= Len(SegmentsIn)

\* C3, for the copy in TranslationSubtitlesLambda.py alone.
C3_BlankSegmentsDroppedTSL ==
    (Filtered /\ calls[1] = "TSL") =>
        /\ \A s \in Range(SegmentsOut) : ~IsBlank(s.transcript)
        /\ \A s \in Range(SegmentsIn) :
              ~IsBlank(ReconstructedWords(s)) => s.id \in Range(Ids(SegmentsOut))
        /\ IsSubsequence(Ids(SegmentsOut), Ids(SegmentsIn))
        /\ Len(SegmentsOut) <= Len(SegmentsIn)

\* C9 as stated: a call of the filter on a transcript in which no pronunciation
\* item is below the threshold returns the data unchanged.
C9_NoLowItemsIsNoOp ==
    (Filtered /\ \A i \in DOMAIN ItemsRead : ~IsLowPronunciation(ItemsRead[i].id))
        => transcript_data = prev

\* C9 as amended: a call of the filter on data the filter itself returned gives
\* that data back, so filtering twice is filtering once.
C9_FilterTwiceIsFilterOnce ==
    Len(calls) >= 2 => transcript_data = prev

\* C9 witness: the first call changed the transcript and left segments, and the
\* second call has run.
C9_Witness ==
    /\ Len(calls) = 2
    /\ prev # file
    /\ prev.results.audio_segments # <<>>
    /\ \E i \in DOMAIN ItemsRead : IsLowPronunciation(ItemsRead[i].id)

----------------------------------------------------------------------------
(* Properties of lambda_handler (Spec)                                     *)

HasItems == "items" \in DOMAIN file.results
HasAudioSegments == "audio_segments" \in DOMAIN file.results

\* The segments of the artifact that survive the filter: those whose
\* reconstructed transcript is not blank.
Surviving ==
    LET NotBlank(seg) == ~IsBlank(ReconstructedWords(seg))
    IN  SelectSeq(file.results.audio_segments, NotBlank)

TimeOr0(seg, field) == IF field \in DOMAIN seg THEN seg[field] ELSE 0

Failed(resp) == resp.kind \in {"error", "malformed", "raised"}

\* C4: with items and audio_segments in the input, whatever the translator answers,
\* the handler never aborts and can always take its next step until it is done;
\* every completed iteration has appended one subtitle, and the subtitles are those
\* of the surviving segments in order, each with its segment's times and with the
\* segment's reconstructed transcript as text.
C4_OneSubtitlePerSurvivingSegment ==
    (HasItems /\ HasAudioSegments) =>
        /\ pc # "failed"
        /\ pc # "done" => ENABLED Next
        /\ Len(subtitles) = idx
        /\ pc \in {"loop", "done"} =>
              /\ Len(segments_to_translate) = Len(Surviving)
              /\ \A k \in DOMAIN subtitles :
                    /\ subtitles[k].start_time = TimeOr0(Surviving[k], "start_time")
                    /\ subtitles[k].end_time = TimeOr0(Surviving[k], "end_time")
                    /\ subtitles[k].text = ReconstructedWords(Surviving[k])
        /\ pc = "done" => Len(subtitles) = Len(Surviving) /\ uploaded = <<subtitles>>

\* C4 witness: the scenario of the specification's section 8 has run to the end, the
\* translator failing on the first segment and answering on the second.
C4_Witness ==
    /\ pc = "done"
    /\ Len(file.results.audio_segments) = 2
    /\ file.results.audio_segments[1].items = <<1, 2>>
    /\ file.results.audio_segments[2].items = <<3>>
    /\ Len(subtitles) = 2
    /\ subtitles[1] = [start_time |-> 0, end_time |-> 200, text |-> Hello,
                       ja_text |-> ERROR_TAG \o Hello]
    /\ subtitles[2].start_time = 200
    /\ subtitles[2].end_time = 400
    /\ subtitles[2].text = Goodbye
    /\ responses[1].kind = "raised"
    /\ responses[2].kind = "ok"

BaseFillers == {
    <<"u","m">>, <<"u","h">>, <<"s","o">>, <<"w","e","l","l">>,
    <<"y","o","u"," ","k","n","o","w">>, <<"i"," ","m","e","a","n">> }

\* After trimming and lowercasing, one of the filler words, optionally with a comma.
IsFillerOnly(text) ==
    LET t == Lower(Strip(text))
    IN  t \in BaseFillers \cup { f \o <<",">> : f \in BaseFillers }

\* The segment lists exactly a filler word item followed by a comma item.
IsFillerThenComma(seg) ==
    /\ Len(seg.items) = 2
    /\ HasMatch(ItemsRead, seg.items[1])
    /\ HasMatch(ItemsRead, seg.items[2])
    /\ MatchedItem(ItemsRead, seg.items[1]).type = "pronunciation"
    /\ Lower(MatchedItem(ItemsRead, seg.items[1]).alternatives[1].content) \in BaseFillers
    /\ MatchedItem(ItemsRead, seg.items[2]).type = "punctuation"
    /\ MatchedItem(ItemsRead, seg.items[2]).alternatives[1].content = <<",">>

\* C5: when the translation of a segment fails and the source text is filler-only,
\* ja_text is the placeholder character and not the tagged error string; so it is
\* for the text of a segment made of a filler word item and a comma item.
C5_FillerFailureGivesPlaceholder ==
    \A k \in DOMAIN subtitles :
        Failed(responses[k]) =>
            /\ IsFillerOnly(subtitles[k].text) => subtitles[k].ja_text = <<IDEOGRAPHIC_SPACE>>
            /\ IsFillerThenComma(segments_to_translate[k]) =>
                    subtitles[k].ja_text = <<IDEOGRAPHIC_SPACE>>

\* C6: when the translation of a segment fails and the source text, trimmed and
\* lowercased, is not in the filler list, ja_text is "[TRANSLATION_ERROR] " followed
\* by the source text, and is not the placeholder character.
C6_NonFillerFailureGivesTaggedText ==
    \A k \in DOMAIN subtitles :
        (Failed(responses[k]) /\ Lower(Strip(subtitles[k].text)) \notin FILLERS) =>
            /\ subtitles[k].ja_text = ERROR_TAG \o subtitles[k].text
            /\ subtitles[k].ja_text # <<IDEOGRAPHIC_SPACE>>

\* C6 witness: the translator failed on "Hello" and on "Um ,".
C6_Witness ==
    /\ Len(subtitles) = 2
    /\ Failed(responses[1]) /\ Failed(responses[2])
    /\ \E k \in DOMAIN subtitles : subtitles[k].ja_text = ERROR_TAG \o Hello
    /\ \E k \in DOMAIN subtitles :
          subtitles[k].ja_text = ERROR_TAG \o <<"U","m"," ",",">>

\* t is full without its leading and trailing whitespace, and is not empty.
IsTrimOf(t, full) ==
    /\ t # <<>>
    /\ t[1] \notin Whitespace
    /\ t[Len(t)] \notin Whitespace
    /\ \E i \in 1..Len(full) :
          /\ i + Len(t) - 1 <= Len(full)
          /\ SubSeq(full, i, i + Len(t) - 1) = t
          /\ \A j \in 1..Len(full) : (j < i \/ j > i + Len(t) - 1) => full[j] \in Whitespace

\* C7: when the translator answers, ja_text is the answer trimmed, or the placeholder
\* character when nothing is left of it; every subtitle has a non-empty ja_text; an
\* answer longer than the character budget is kept whole.
C7_AnswerTrimmedNeverEmpty ==
    \A k \in DOMAIN subtitles :
        /\ subtitles[k].ja_text # <<>>
        /\ responses[k].kind = "ok" =>
              IF IsBlank(responses[k].text)
              THEN subtitles[k].ja_text = <<IDEOGRAPHIC_SPACE>>
              ELSE IsTrimOf(subtitles[k].ja_text, responses[k].text)

\* C7 witness: one answer was blank, another was padded and longer than the budget.
C7_Witness ==
    /\ \E k \in DOMAIN subtitles :
          /\ responses[k].kind = "ok"
          /\ responses[k].text = <<" ", IDEOGRAPHIC_SPACE>>
          /\ subtitles[k].ja_text = <<IDEOGRAPHIC_SPACE>>
    /\ \E k \in DOMAIN subtitles :
          /\ responses[k].kind = "ok"
          /\ subtitles[k].ja_text = Konnichiwa
          /\ max_translated_characters[k] >= 0
          /\ Len(subtitles[k].ja_text) > max_translated_characters[k]

\* end_time - start_time as line 94 has it, in hundredths of a second.
Duration(seg) == TimeOr0(seg, "end_time") - TimeOr0(seg, "start_time")

\* C8: the budget of every segment the loop has processed is
\* floor((end_time - start_time) * 5.68), is 0 for equal times, does not decrease
\* when the duration grows, and is never negative.
C8_BudgetIsFloorAndNeverNegative ==
    \A k \in DOMAIN max_translated_characters :
        LET seg == segments_to_translate[k]
            budget == max_translated_characters[k]
        IN  /\ budget = (Duration(seg) * 568) \div 10000
            /\ Duration(seg) = 0 => budget = 0
            /\ budget >= 0
            /\ \A j \in DOMAIN max_translated_characters :
                  Duration(segments_to_translate[j]) <= Duration(seg)
                      => max_translated_characters[j] <= budget

\* C10: with results.items and without results.audio_segments the run does not
\* fail, and ends with one subtitle per item, its text the item's content.
C10_DegradedModeRuns ==
    (HasItems /\ ~HasAudioSegments) =>
        /\ pc # "failed"
        /\ pc = "done" =>
              /\ Len(subtitles) = Len(file.results.items)
              /\ \A k \in DOMAIN subtitles :
                    subtitles[k].text = file.results.items[k].alternatives[1].content

\* C11: nothing is uploaded before the loop has processed every surviving segment;
\* what is uploaded is uploaded once and is the complete list, one subtitle per
\* surviving segment in order; a run that has not reached its end, or has aborted,
\* has uploaded nothing. With neither results.items nor results.audio_segments the
\* run aborts at its first step: no translator call, no subtitle, no upload.
C11_CompleteListOrNothing ==
    /\ Len(uploaded) <= 1
    /\ pc # "done" => uploaded = <<>>
    /\ uploaded # <<>> =>
          /\ pc = "done"
          /\ idx = Len(segments_to_translate)
          /\ Len(responses) = Len(segments_to_translate)
          /\ uploaded[1] = subtitles
          /\ Len(uploaded[1]) = Len(Surviving)
          /\ \A k \in DOMAIN uploaded[1] :
                uploaded[1][k].text = ReconstructedWords(Surviving[k])
    /\ (~HasItems /\ ~HasAudioSegments) =>
          /\ pc \in {"filter", "failed"}
          /\ pc = "filter" => ENABLED Next
          /\ pc = "failed" => error # "none"
          /\ responses = <<>>
          /\ subtitles = <<>>
          /\ uploaded = <<>>

\* C11 witness: a run with two surviving segments has uploaded its list, one entry
\* of it carrying the error tag of a failed translation.
C11_Witness ==
    /\ pc = "done"
    /\ uploaded # <<>>
    /\ Len(uploaded[1]) = 2
    /\ Failed(responses[1])
    /\ responses[2].kind = "ok"
    /\ uploaded[1][1].ja_text = ERROR_TAG \o uploaded[1][1].text

\* C11 witness of the other case: the artifact had neither key and the run aborted.
C11_AbortedOnEmptyResults ==
    /\ ~HasItems /\ ~HasAudioSegments
    /\ pc = "failed"
    /\ error = "KeyError"

====
